---- MODULE Spec2Model ----
(***************************************************************************)
(* Model of nova/virt/libvirt/imagebackend.py: the image cache protocol    *)
(* (Image.cache and the create_image of the Raw, Qcow2 and Lvm backends),  *)
(* Image.verify_base_size, Image.resolve_driver_format and                 *)
(* Rbd.direct_fetch.                                                       *)
(***************************************************************************)
EXTENDS Integers, Sequences, FiniteSets, TLC

(***************************************************************************)
(* Bounds of the model.                                                    *)
(***************************************************************************)
\* cache() calls made in one behaviour, over all processes
MaxCalls == 2
\* virtual size of a fetched base image
BaseVirtualSize == 2

\* the largest size verify_base_size is tried with
MaxSize == 3

\* resolve_driver_format() calls made in one behaviour, over all threads
MaxResolves == 3

\* the longest list of image locations direct_fetch is given
MaxLocations == 3

\* the longest snapshot name direct_snapshot is given
MaxNameLen == 3

\* longest name of a backing file
MaxBackingLen == 4

\* cache() calls that reach the preallocation test in one behaviour
MaxProbeCalls == 3

\* operations on cluster sessions made in one behaviour
MaxOps == 3

\* Python's None, as a size argument (size=None); ordered below every number
\* as CPython 2 orders it
NoneV == -1

\* the independent processes (compute services sharing the instances path)
Procs == {"p1", "p2"}

Kinds == {"raw", "qcow2", "lvm"}

\* the backends of the disks the two processes work on
KindPairs ==
    {<<"raw", "raw">>, <<"raw", "qcow2">>, <<"raw", "lvm">>,
     <<"qcow2", "qcow2">>, <<"qcow2", "lvm">>, <<"lvm", "lvm">>}

\* The arguments of a cache() call: which of the keys 'image_id' and
\* 'ephemeral_size' its kwargs hold (a templated disk, an ephemeral disk, or
\* neither key), and its size: None, below the base's, above it
CallArgs ==
    {[kw |-> "none", size |-> BaseVirtualSize + 1],
     [kw |-> "image_id", size |-> NoneV],
     [kw |-> "image_id", size |-> BaseVirtualSize - 1],
     [kw |-> "image_id", size |-> BaseVirtualSize + 1],
     [kw |-> "ephemeral_size", size |-> BaseVirtualSize + 1],
     [kw |-> "ephemeral_size", size |-> NoneV]}

FileStates == {"absent", "partial", "complete"}

VARIABLES
    \* ---- the cache protocol ----
    conf_lvm,      \* CONF.libvirt_images_type == "lvm"
    kind,          \* kind[p]: class of p's image descriptor
    base,          \* the base file base_dir/filename
    path,          \* path[p]: the target self.path of p's descriptor
    legacy_base,   \* the legacy base file base_<n>
    legacy_backed, \* legacy_backed[p]: p's existing qcow2 target names a legacy backing file
    locks,         \* locks[name]: holder of the external lock `name`, or "free"
    pc,            \* pc[p]: where p is in cache()
    call,          \* call[p]: arguments and locals of p's current call
    hist,          \* hist[p]: what p's current call has done (history)
    calls,         \* cache() calls started so far
    ok_fetches,    \* non-ephemeral fetches onto the base that returned normally
    fa,            \* the preallocation probe of cache() (_can_fallocate)
    \* ---- verify_base_size ----
    vb,
    \* ---- resolve_driver_format ----
    di,
    \* ---- direct_fetch ----
    df,
    \* ---- direct_snapshot ----
    sn,
    \* ---- cluster sessions and volume handles ----
    rs,
    \* ---- legacy backing detection ----
    lg,
    \* ---- Rbd.create_image ----
    rc

cacheVars == <<conf_lvm, kind, base, path, legacy_base, legacy_backed, locks,
               pc, call, hist, calls, ok_fetches, fa>>
vars == <<conf_lvm, kind, base, path, legacy_base, legacy_backed, locks,
          pc, call, hist, calls, ok_fetches, fa, vb, di, df, sn, rs, lg, rc>>

\* the variables of the Rbd operations other than direct_fetch, and of the
\* legacy backing detection
rbdVars == <<sn, rs, lg, rc>>

\* Python truthiness of a size: None and 0 are empty
Truthy(x) == x # NoneV /\ x # 0

\* a < b as CPython 2 evaluates it: None sorts below every number
PyLt(a, b) ==
    IF a = NoneV THEN b # NoneV
    ELSE IF b = NoneV THEN FALSE
    ELSE a < b

Exists(f) == f # "absent"


ProbeIdle == fa = [state |-> "off"]
InfoIdle == di = [state |-> "off"]
FetchIdle == df = [state |-> "off"]
SnapIdle == sn = [state |-> "off"]
SessIdle == rs = [state |-> "off"]
LegacyIdle == lg = [state |-> "off"]
RbdIdle == rc = [state |-> "off"]
RbdVarsIdle == SnapIdle /\ SessIdle /\ LegacyIdle /\ RbdIdle

(***************************************************************************)
(* Image.verify_base_size and Image.get_disk_size                          *)
(***************************************************************************)
\* the marker for "the volume cannot be opened" (rbd.Error)
RbdError == -2

VerifyKinds == {"raw", "qcow2", "lvm", "rbd"}

\* get_disk_size(name): Image.get_disk_size calls disk.get_disk_size and drops
\* its result (no return statement: None); only Rbd overrides it and returns
\* the size of the volume it opens.  disk_size is what the disk reports.
get_disk_size(k, disk_size) == IF k = "rbd" THEN disk_size ELSE NoneV

\* verify_base_size(base, size, base_size): "ok" when it returns, else the
\* exception it raises
verify_base_size(k, size, base_size, disk_size) ==
    IF size = NoneV THEN "ok"
    ELSE LET computed == Truthy(size) /\ ~Truthy(base_size)
             bs == IF computed THEN get_disk_size(k, disk_size) ELSE base_size
         IN IF computed /\ bs = RbdError THEN "rbd.Error"
            ELSE IF PyLt(size, bs) THEN "InstanceTypeDiskTooSmall"
            ELSE "ok"

(***************************************************************************)
(* Image.cache and the fetch wrapper call_if_not_exists                    *)
(***************************************************************************)
IdleCall == [kw |-> "none", size |-> NoneV, image_exists |-> FALSE,
             wtarget |-> "none", cont |-> "none", hnd |-> "none", err |-> "none"]

\* What a call has done: it was entered with the target and the base both
\* existing; create_image was called; the fetch wrapper made its check;
\* fetch_func was called; it was called on the base without 'ephemeral_size';
\* the artifacts the call made visible; the processes whose latest call
\* overlaps (or overlapped) this one; it was entered with neither the target
\* nor the base existing; the commands it has run, in order; no other call
\* ran while it did
IdleHist == [entry_both |-> FALSE, create |-> FALSE, fetch |-> FALSE,
             wrapper |-> FALSE, fetched_base |-> FALSE, visible |-> {},
             with |-> {}, entry_none |-> FALSE, trace |-> <<>>,
             alone |-> FALSE]

\* a command of a call and the size it was given (NoneV: it takes none)
Ev(op, size) == [op |-> op, size |-> size]

InCall(p) == pc[p] \notin {"idle", "returned", "raised"}

\* cache(): create_image is called unless the image and the base both exist
\* (variant: create_image is called on every cache())
cache_needs_create_mutant(image_exists, base_exists) == TRUE
cache_needs_create(image_exists, base_exists) == ~image_exists \/ ~base_exists

\* call_if_not_exists: whether fetch_func is called, given that the target
\* exists, CONF.libvirt_images_type == "lvm", 'ephemeral_size' in kwargs
\* (variants: the wrapper without its existence test; without its elif)
wrapper_fetches_mutant(target_exists, lvm, ephemeral) == TRUE
wrapper_fetches_no_elif(target_exists, lvm, ephemeral) == ~target_exists
wrapper_fetches(target_exists, lvm, ephemeral) ==
    ~target_exists \/ (lvm /\ ephemeral)

\* utils.synchronized(name, external=True): the lock can be taken
lock_free(name) == locks[name] = "free"

\* utils.synchronized holds the lock in a with-statement: an exception that
\* leaves the function releases it (variant: it stays held)
release_on_raise_never(l, name) == l
release_on_raise(l, name) == [l EXCEPT ![name] = "free"]

\* the state of the file the wrapper was handed as target
TargetOf(p) == IF call[p].wtarget = "base" THEN base ELSE path[p]

\* an exception leaves through the enclosing with-statement, if there is one
Unwind(p) == IF call[p].hnd = "none" THEN "raised" ELSE "rollback"

\* the record of a call that has left the wrapper, the with-statement or
\* cache(): its arguments and its exception, the dead locals dropped
Left(c, e) == [IdleCall EXCEPT !.kw = c.kw, !.size = c.size, !.err = e]

\* what no step of cache() changes: the configuration, the descriptors, the
\* backing of the targets of earlier releases, the other operations' state
fixed == <<conf_lvm, kind, legacy_backed, fa, vb, di, df, rbdVars>>

CacheInit ==
    /\ conf_lvm \in BOOLEAN
    \* the processes are interchangeable: of two configurations that differ
    \* by renaming them, one is kept
    /\ kind \in {k \in [Procs -> Kinds] : <<k["p1"], k["p2"]>> \in KindPairs}
    /\ base = "absent"
    /\ legacy_base = "absent"
    \* a target that exists from the start is a qcow2 disk of an earlier
    \* release, backed by a file named <base>_<digits>
    /\ legacy_backed \in [Procs -> BOOLEAN]
    /\ \A p \in Procs : legacy_backed[p] => kind[p] = "qcow2"
    /\ kind["p1"] = kind["p2"] => (legacy_backed["p1"] => legacy_backed["p2"])
    /\ path = [p \in Procs |-> IF legacy_backed[p] THEN "complete" ELSE "absent"]
    /\ locks = [n \in {"filename", "base"} |-> "free"]
    /\ pc = [p \in Procs |-> "idle"]
    /\ call = [p \in Procs |-> IdleCall]
    /\ hist = [p \in Procs |-> IdleHist]
    /\ calls = 0
    /\ ok_fetches = 0
    /\ ProbeIdle

\* cache(fetch_func, filename, size, **kwargs) is entered, by a process that
\* is in no call; self.check_image_exists() is evaluated.  The call with
\* neither key is made on the flat backend, the one that tests for
\* 'image_id'; the others test for 'ephemeral_size' only.
StartCache(p) ==
    /\ pc[p] \in {"idle", "returned", "raised"}
    /\ calls < MaxCalls
    /\ \E a \in CallArgs :
         /\ a.kw = "none" => kind[p] = "raw"
         /\ call' = [call EXCEPT ![p] = [IdleCall EXCEPT !.kw = a.kw, !.size = a.size,
                                       !.image_exists = Exists(path[p])]]
    /\ hist' = [q \in Procs |->
                  IF q = p
                  THEN [IdleHist EXCEPT
                          !.entry_both = Exists(path[p]) /\ Exists(base),
                          !.entry_none = ~Exists(path[p]) /\ ~Exists(base),
                          !.with = {r \in Procs \ {p} : InCall(r)},
                          !.alone = \A r \in Procs \ {p} : ~InCall(r)]
                  ELSE [hist[q] EXCEPT
                          !.with = IF InCall(q) THEN @ \cup {p} ELSE @ \ {p},
                          !.alone = @ /\ ~InCall(q)]]
    /\ calls' = calls + 1
    /\ pc' = [pc EXCEPT ![p] = "cache_check_base"]
    /\ UNCHANGED <<fixed, base, path, legacy_base, locks, ok_fetches>>

\* if not self.check_image_exists() or not os.path.exists(base):
\*     self.create_image(call_if_not_exists, base, size, ...)
\* and, when nothing is to be created, the rest of cache(): the fallocate of
\* an existing path, which keeps the file and its size, and the return
CacheCheckBase(p) ==
    /\ pc[p] = "cache_check_base"
    /\ IF cache_needs_create(call[p].image_exists, Exists(base))
       THEN /\ pc' = [pc EXCEPT ![p] = "create_image"]
            /\ hist' = [hist EXCEPT ![p].create = TRUE]
       ELSE /\ pc' = [pc EXCEPT ![p] = "returned"]
            /\ UNCHANGED hist
    /\ call' = [call EXCEPT ![p] = Left(@, "none")]
    /\ UNCHANGED <<fixed, base, path, legacy_base, locks, calls, ok_fetches>>

\* call_if_not_exists(target) is entered under
\* @utils.synchronized(filename, external=True):
\*     if not os.path.exists(target): fetch_func(target=target)
\*     elif CONF.libvirt_images_type == "lvm" and 'ephemeral_size' in kwargs:
\*         fetch_func(target=target)
\* Without a fetch the wrapper returns at once and the lock is free again.
WrapEnter(p) ==
    /\ pc[p] = "w_lock"
    /\ lock_free("filename")
    /\ IF wrapper_fetches(Exists(TargetOf(p)), conf_lvm,
                          call[p].kw = "ephemeral_size")
       THEN /\ locks' = [locks EXCEPT !["filename"] = p]
            /\ pc' = [pc EXCEPT ![p] = "fetching"]
            /\ hist' = [hist EXCEPT ![p].wrapper = TRUE, ![p].fetch = TRUE,
                          ![p].fetched_base =
                              @ \/ (call[p].wtarget = "base"
                                    /\ call[p].kw # "ephemeral_size"),
                          ![p].trace = Append(@, Ev("fetch_" \o call[p].wtarget,
                                                    NoneV))]
            /\ UNCHANGED call
       ELSE /\ pc' = [pc EXCEPT ![p] = call[p].cont]
            /\ hist' = [hist EXCEPT ![p].wrapper = TRUE]
            /\ call' = [call EXCEPT ![p] = Left(@, "none")]
            /\ UNCHANGED locks
    /\ UNCHANGED <<fixed, base, path, legacy_base, calls, ok_fetches>>

\* the state of the wrapper's target becomes s
SetTarget(p, s) ==
    IF call[p].wtarget = "base"
    THEN /\ base' = s
         /\ UNCHANGED <<path, hist>>
    ELSE /\ path' = [path EXCEPT ![p] = s]
         /\ base' = base
         /\ hist' = [hist EXCEPT ![p].visible =
                       IF Exists(path[p]) THEN @ ELSE @ \cup {"path"}]

\* fetch_func(target=target): the callback starts writing the target, which
\* becomes visible before it is complete
FetchWrite(p) ==
    /\ pc[p] = "fetching"
    /\ SetTarget(p, "partial")
    /\ pc' = [pc EXCEPT ![p] = "fetching_visible"]
    /\ UNCHANGED <<fixed, legacy_base, locks, call, calls, ok_fetches>>

\* fetch_func returns, the target complete; the wrapper returns and the lock
\* is released
FetchReturn(p) ==
    /\ pc[p] \in {"fetching", "fetching_visible"}
    /\ SetTarget(p, "complete")
    /\ ok_fetches' = IF call[p].wtarget = "base" /\ call[p].kw # "ephemeral_size"
                     THEN ok_fetches + 1 ELSE ok_fetches
    /\ locks' = [locks EXCEPT !["filename"] = "free"]
    /\ pc' = [pc EXCEPT ![p] = call[p].cont]
    /\ call' = [call EXCEPT ![p] = Left(@, "none")]
    /\ UNCHANGED <<fixed, legacy_base, calls>>

\* fetch_func raises, the target staying as the callback left it; the
\* exception leaves the wrapper, which releases the lock
FetchRaise(p) ==
    /\ pc[p] \in {"fetching", "fetching_visible"}
    /\ locks' = release_on_raise(locks, "filename")
    /\ pc' = [pc EXCEPT ![p] = Unwind(p)]
    /\ call' = [call EXCEPT ![p] = [Left(@, "FetchError") EXCEPT !.hnd = call[p].hnd]]
    /\ UNCHANGED <<fixed, base, path, legacy_base, hist, calls, ok_fetches>>

(***************************************************************************)
(* The critical section under the lock named by the base path              *)
(* (copy_raw_image, copy_qcow2_image, create_lvm_image)                    *)
(***************************************************************************)
\* with fileutils.remove_path_on_error(self.path) (Raw, Qcow2) or
\* with self.remove_volume_on_error(self.path) (Lvm) encloses the call of the
\* function that is @utils.synchronized(base, external=True)
BaseAcquire(p) ==
    /\ pc[p] = "b_lock"
    /\ lock_free("base")
    /\ locks' = [locks EXCEPT !["base"] = p]
    /\ call' = [call EXCEPT ![p].hnd =
                  IF kind[p] = "lvm" THEN "remove_volume" ELSE "remove_path"]
    /\ pc' = [pc EXCEPT ![p] = CASE kind[p] = "raw" -> "copy_image"
                                 [] kind[p] = "qcow2" -> "create_cow_image"
                                 [] kind[p] = "lvm" -> "lvm_get_size"]
    /\ UNCHANGED <<fixed, base, path, legacy_base, hist, calls, ok_fetches>>

\* the synchronized function returns: the lock is released, the
\* with-statement is left
BaseReturn(p) ==
    /\ locks' = [locks EXCEPT !["base"] = "free"]
    /\ pc' = [pc EXCEPT ![p] = IF kind[p] = "raw" THEN "raw_correct_format"
                               ELSE "returned"]
    /\ call' = [call EXCEPT ![p] = Left(@, "none")]

\* a command of the synchronized function raises e: the lock is released and
\* the exception reaches the handler of the with-statement
BaseRaise(p, e) ==
    /\ locks' = release_on_raise(locks, "base")
    /\ pc' = [pc EXCEPT ![p] = "rollback"]
    /\ call' = [call EXCEPT ![p].err = e]

\* a command that writes self.path from the base: it succeeds, or it raises
\* leaving nothing or a partial file (no base to read: it can only raise)
WritePath(p, op) ==
    \/ /\ Exists(base)
       /\ path' = [path EXCEPT ![p] = "complete"]
       /\ hist' = [hist EXCEPT ![p].visible = @ \cup {"path"},
                               ![p].trace = Append(@, Ev(op, NoneV))]
       /\ IF Truthy(call[p].size)
          THEN /\ pc' = [pc EXCEPT ![p] = "extend"]
               /\ UNCHANGED <<call, locks>>
          ELSE BaseReturn(p)
    \/ /\ \E s \in {path[p], "partial"} :
            /\ path' = [path EXCEPT ![p] = s]
            /\ hist' = [hist EXCEPT ![p].visible =
                          IF Exists(s) THEN @ \cup {"path"} ELSE @,
                                    ![p].trace = Append(@, Ev(op, NoneV))]
       /\ BaseRaise(p, "ProcessExecutionError")

\* libvirt_utils.copy_image(base, target) in copy_raw_image
CopyImage(p) ==
    /\ pc[p] = "copy_image"
    /\ WritePath(p, "copy_image")
    /\ UNCHANGED <<fixed, base, legacy_base, calls, ok_fetches>>

\* libvirt_utils.create_cow_image(base, target) in copy_qcow2_image
CreateCowImage(p) ==
    /\ pc[p] = "create_cow_image"
    /\ WritePath(p, "create_cow_image")
    /\ UNCHANGED <<fixed, base, legacy_base, calls, ok_fetches>>

\* if size: disk.extend(target, size, use_cow): it succeeds or it raises
Extend(p) ==
    /\ pc[p] = "extend"
    /\ hist' = [hist EXCEPT ![p].trace = Append(@, Ev("extend", call[p].size))]
    /\ \/ BaseReturn(p)
       \/ BaseRaise(p, "ProcessExecutionError")
    /\ UNCHANGED <<fixed, base, path, legacy_base, calls, ok_fetches>>

\* fileutils.remove_path_on_error(path) / Lvm.remove_volume_on_error(path):
\* the handler deletes its path and the exception is raised again
Rollback(p) ==
    /\ pc[p] = "rollback"
    /\ IF call[p].hnd = "remove_legacy_base"
       THEN /\ legacy_base' = "absent"
            /\ UNCHANGED path
       ELSE /\ path' = [path EXCEPT ![p] = "absent"]
            /\ UNCHANGED legacy_base
    /\ pc' = [pc EXCEPT ![p] = "raised"]
    /\ call' = [call EXCEPT ![p] = Left(@, @.err)]
    /\ UNCHANGED <<fixed, base, locks, hist, calls, ok_fetches>>

(***************************************************************************)
(* Raw.create_image                                                        *)
(***************************************************************************)
\* what the base reports as its virtual size to disk.get_disk_size
BaseDiskSize == BaseVirtualSize

\* generating = 'image_id' not in kwargs (variant: always generating)
raw_generating_always(kw) == TRUE
raw_generating(kw) == kw # "image_id"

RawCreateImage(p) ==
    /\ pc[p] = "create_image"
    /\ kind[p] = "raw"
    /\ IF raw_generating(call[p].kw)
       THEN \* generating: prepare_template(target=self.path)
            call' = [call EXCEPT ![p].wtarget = "path",
                                 ![p].cont = "raw_correct_format"]
       ELSE \* prepare_template(target=base, max_size=size)
            call' = [call EXCEPT ![p].wtarget = "base", ![p].cont = "raw_verify"]
    /\ pc' = [pc EXCEPT ![p] = "w_lock"]
    /\ UNCHANGED <<fixed, base, path, legacy_base, locks, hist, calls, ok_fetches>>

\* self.verify_base_size(base, size); if not os.path.exists(self.path):
\*     with fileutils.remove_path_on_error(self.path): copy_raw_image(...)
RawVerify(p) ==
    /\ pc[p] = "raw_verify"
    /\ LET r == verify_base_size("raw", call[p].size, 0, BaseDiskSize)
       IN IF r # "ok"
          THEN /\ call' = [call EXCEPT ![p].err = r]
               /\ pc' = [pc EXCEPT ![p] = "raised"]
          ELSE /\ pc' = [pc EXCEPT ![p] = IF ~Exists(path[p]) THEN "b_lock"
                                          ELSE "raw_correct_format"]
               /\ UNCHANGED call
    /\ hist' = [hist EXCEPT ![p].trace =
                                  Append(@, Ev("verify_base_size", call[p].size))]
    /\ UNCHANGED <<fixed, base, path, legacy_base, locks, calls, ok_fetches>>

\* self.correct_format(): resolve_driver_format() of an existing path returns
\* or raises (InvalidDiskInfo, DiskInfoReadWriteFail, a failed probe); then
\* the rest of cache()
RawCorrectFormat(p) ==
    /\ pc[p] = "raw_correct_format"
    /\ \/ /\ pc' = [pc EXCEPT ![p] = "returned"]
          /\ UNCHANGED call
       \/ /\ Exists(path[p])
          /\ call' = [call EXCEPT ![p].err = "InvalidDiskInfo"]
          /\ pc' = [pc EXCEPT ![p] = "raised"]
    /\ UNCHANGED <<fixed, base, path, legacy_base, locks, hist, calls, ok_fetches>>

(***************************************************************************)
(* Qcow2.create_image                                                      *)
(***************************************************************************)
\* if not os.path.exists(base): prepare_template(target=base, max_size=size)
\* else: self.verify_base_size(base, size)
QcowCreateImage(p) ==
    /\ pc[p] = "create_image"
    /\ kind[p] = "qcow2"
    /\ IF ~Exists(base)
       THEN /\ call' = [call EXCEPT ![p].wtarget = "base", ![p].cont = "qcow_legacy"]
            /\ pc' = [pc EXCEPT ![p] = "w_lock"]
            /\ UNCHANGED hist
       ELSE /\ LET r == verify_base_size("qcow2", call[p].size, 0, BaseDiskSize)
               IN IF r # "ok"
                  THEN /\ call' = [call EXCEPT ![p].err = r]
                       /\ pc' = [pc EXCEPT ![p] = "raised"]
                  ELSE /\ pc' = [pc EXCEPT ![p] = "qcow_legacy"]
                       /\ UNCHANGED call
            /\ hist' = [hist EXCEPT ![p].trace =
                          Append(@, Ev("verify_base_size", call[p].size))]
    /\ UNCHANGED <<fixed, base, path, legacy_base, locks, calls, ok_fetches>>

\* an existing target whose backing file is named <base>_<digits>: if
\* legacy_backing_size: if not os.path.exists(legacy_base):
\*     with fileutils.remove_path_on_error(legacy_base): ...
QcowLegacy(p) ==
    /\ pc[p] = "qcow_legacy"
    /\ IF Exists(path[p]) /\ legacy_backed[p] /\ ~Exists(legacy_base)
       THEN /\ call' = [call EXCEPT ![p].hnd = "remove_legacy_base"]
            /\ pc' = [pc EXCEPT ![p] = "legacy_copy"]
       ELSE /\ pc' = [pc EXCEPT ![p] = "qcow_overlay"]
            /\ UNCHANGED call
    /\ UNCHANGED <<fixed, base, path, legacy_base, locks, hist, calls, ok_fetches>>

\* libvirt_utils.copy_image(base, legacy_base)
LegacyCopy(p) ==
    /\ pc[p] = "legacy_copy"
    /\ \/ /\ Exists(base)
          /\ legacy_base' = "complete"
          /\ hist' = [hist EXCEPT ![p].visible = @ \cup {"legacy_base"}]
          /\ pc' = [pc EXCEPT ![p] = "legacy_extend"]
          /\ UNCHANGED call
       \/ /\ \E s \in {legacy_base, "partial"} :
               /\ legacy_base' = s
               /\ hist' = [hist EXCEPT ![p].visible =
                             IF Exists(s) THEN @ \cup {"legacy_base"} ELSE @]
          /\ call' = [call EXCEPT ![p].err = "ProcessExecutionError"]
          /\ pc' = [pc EXCEPT ![p] = "rollback"]
    /\ UNCHANGED <<fixed, base, path, locks, calls, ok_fetches>>

\* disk.extend(legacy_base, legacy_backing_size, use_cow=True)
LegacyExtend(p) ==
    /\ pc[p] = "legacy_extend"
    /\ \/ /\ call' = [call EXCEPT ![p] = Left(@, "none")]
          /\ pc' = [pc EXCEPT ![p] = "qcow_overlay"]
       \/ /\ call' = [call EXCEPT ![p].err = "ProcessExecutionError"]
          /\ pc' = [pc EXCEPT ![p] = "rollback"]
    /\ UNCHANGED <<fixed, base, path, legacy_base, locks, hist, calls, ok_fetches>>

\* if not os.path.exists(self.path):
\*     with fileutils.remove_path_on_error(self.path): copy_qcow2_image(...)
\* else the rest of cache()
QcowOverlay(p) ==
    /\ pc[p] = "qcow_overlay"
    /\ pc' = [pc EXCEPT ![p] = IF ~Exists(path[p]) THEN "b_lock" ELSE "returned"]
    /\ UNCHANGED <<fixed, base, path, legacy_base, locks, call, hist, calls, ok_fetches>>

(***************************************************************************)
(* Lvm.create_image                                                        *)
(***************************************************************************)
\* libvirt_utils.create_lvm_image(vg, lv, size): lvcreate raises when the
\* volume exists, and may raise otherwise; a created volume holds no image
\* yet
Lvcreate(p, size) ==
    /\ ~Exists(path[p])
    /\ path' = [path EXCEPT ![p] = "partial"]
    /\ hist' = [hist EXCEPT ![p].visible = @ \cup {"path"},
                            ![p].trace = Append(@, Ev("create_lvm_image", size))]

\* generated = 'ephemeral_size' in kwargs; if generated and size: ... else: ...
LvmCreateImage(p) ==
    /\ pc[p] = "create_image"
    /\ kind[p] = "lvm"
    /\ IF call[p].kw = "ephemeral_size" /\ Truthy(call[p].size)
       THEN /\ pc' = [pc EXCEPT ![p] = "lvm_generate"]
            /\ UNCHANGED call
       ELSE \* prepare_template(target=base, max_size=size), then
            \* with self.remove_volume_on_error(self.path): create_lvm_image(...)
            /\ call' = [call EXCEPT ![p].wtarget = "base", ![p].cont = "b_lock"]
            /\ pc' = [pc EXCEPT ![p] = "w_lock"]
    /\ UNCHANGED <<fixed, base, path, legacy_base, locks, hist, calls, ok_fetches>>

\* create_lvm_image(vg, lv, size) outside any handler; then
\* with self.remove_volume_on_error(self.path):
\*     prepare_template(target=self.path)
LvmGenerate(p) ==
    /\ pc[p] = "lvm_generate"
    /\ \/ /\ Lvcreate(p, call[p].size)
          /\ call' = [call EXCEPT ![p].hnd = "remove_volume", ![p].wtarget = "path",
                                  ![p].cont = "returned"]
          /\ pc' = [pc EXCEPT ![p] = "w_lock"]
       \/ /\ call' = [call EXCEPT ![p].err = "ProcessExecutionError"]
          /\ pc' = [pc EXCEPT ![p] = "raised"]
          /\ UNCHANGED <<path, hist>>
    /\ UNCHANGED <<fixed, base, legacy_base, locks, calls, ok_fetches>>

\* base_size = disk.get_disk_size(base) (raises without a readable base);
\* self.verify_base_size(base, size, base_size=base_size)
LvmGetSize(p) ==
    /\ pc[p] = "lvm_get_size"
    /\ \/ /\ Exists(base)
          /\ LET r == verify_base_size("lvm", call[p].size, BaseDiskSize, BaseDiskSize)
             IN IF r # "ok"
                THEN BaseRaise(p, r)
                ELSE /\ pc' = [pc EXCEPT ![p] = "lvm_lvcreate"]
                     /\ UNCHANGED <<call, locks>>
          /\ hist' = [hist EXCEPT ![p].trace =
                        Append(@, Ev("verify_base_size", call[p].size))]
       \/ /\ base # "complete"
          /\ BaseRaise(p, "ProcessExecutionError")
          /\ UNCHANGED hist
    /\ UNCHANGED <<fixed, base, path, legacy_base, calls, ok_fetches>>

\* resize = size > base_size (None > base_size is False)
\* (variant: always resize)
lvm_resize_always(size, base_size) == TRUE
lvm_resize(size, base_size) == PyLt(base_size, size)

\* size = size if resize else base_size
lvm_size(size, base_size) == IF lvm_resize(size, base_size) THEN size ELSE base_size

\* libvirt_utils.create_lvm_image(self.vg, self.lv, size, sparse=self.sparse)
LvmLvcreate(p) ==
    /\ pc[p] = "lvm_lvcreate"
    /\ \/ /\ Lvcreate(p, lvm_size(call[p].size, BaseDiskSize))
          /\ pc' = [pc EXCEPT ![p] = "lvm_convert"]
          /\ UNCHANGED <<call, locks>>
       \/ /\ BaseRaise(p, "ProcessExecutionError")
          /\ UNCHANGED <<path, hist>>
    /\ UNCHANGED <<fixed, base, legacy_base, calls, ok_fetches>>

\* images.convert_image(base, self.path, 'raw', run_as_root=True)
LvmConvert(p) ==
    /\ pc[p] = "lvm_convert"
    /\ hist' = [hist EXCEPT ![p].trace = Append(@, Ev("convert_image", NoneV))]
    /\ \/ /\ Exists(base)
          /\ path' = [path EXCEPT ![p] = "complete"]
          /\ IF lvm_resize(call[p].size, BaseDiskSize)
             THEN /\ pc' = [pc EXCEPT ![p] = "lvm_resize2fs"]
                  /\ UNCHANGED <<call, locks>>
             ELSE BaseReturn(p)
       \/ /\ BaseRaise(p, "ProcessExecutionError")
          /\ UNCHANGED path
    /\ UNCHANGED <<fixed, base, legacy_base, calls, ok_fetches>>

\* if resize: disk.resize2fs(self.path, run_as_root=True)
LvmResize2fs(p) ==
    /\ pc[p] = "lvm_resize2fs"
    /\ hist' = [hist EXCEPT ![p].trace = Append(@, Ev("resize2fs", NoneV))]
    /\ \/ BaseReturn(p)
       \/ BaseRaise(p, "ProcessExecutionError")
    /\ UNCHANGED <<fixed, base, path, legacy_base, calls, ok_fetches>>

CacheStep(p) ==
    \/ StartCache(p) \/ CacheCheckBase(p)
    \/ WrapEnter(p) \/ FetchWrite(p) \/ FetchReturn(p) \/ FetchRaise(p)
    \/ BaseAcquire(p) \/ CopyImage(p) \/ CreateCowImage(p) \/ Extend(p)
    \/ Rollback(p)
    \/ RawCreateImage(p) \/ RawVerify(p) \/ RawCorrectFormat(p)
    \/ QcowCreateImage(p) \/ QcowLegacy(p) \/ LegacyCopy(p) \/ LegacyExtend(p)
    \/ QcowOverlay(p)
    \/ LvmCreateImage(p) \/ LvmGenerate(p)
    \/ LvmGetSize(p) \/ LvmLvcreate(p) \/ LvmConvert(p) \/ LvmResize2fs(p)

(***************************************************************************)
(* Claims about the cache protocol                                         *)
(***************************************************************************)
InFetch(p) == pc[p] \in {"fetching", "fetching_visible"}

\* the call of p is the logical-volume ephemeral case
LvmEphemeral(p) == conf_lvm /\ call[p].kw = "ephemeral_size"

C2_NoCreationWhenBothExist ==
    \A p \in Procs :
        hist[p].entry_both /\ ~LvmEphemeral(p) =>
            ~hist[p].create /\ ~hist[p].fetch

\* a call entered with both existing has returned, after another call
C2_Witness ==
    \E p \in Procs :
        /\ pc[p] = "returned" /\ calls >= 2
        /\ hist[p].entry_both /\ ~LvmEphemeral(p)

C9_NoArtifactSurvives ==
    \A p \in Procs :
        pc[p] = "raised" =>
            /\ "path" \in hist[p].visible => ~Exists(path[p])
            /\ ("legacy_base" \in hist[p].visible
                  /\ \A q \in Procs \ {p} : "legacy_base" \notin hist[q].visible)
                 => ~Exists(legacy_base)

(***************************************************************************)
(* verify_base_size on its own: every backend, every size                  *)
(***************************************************************************)
VerifyIdle == vb = [state |-> "off"]

\* the cache protocol at rest
CacheVarsIdle ==
    /\ conf_lvm = FALSE
    /\ kind = [p \in Procs |-> "raw"]
    /\ base = "absent"
    /\ legacy_base = "absent"
    /\ legacy_backed = [p \in Procs |-> FALSE]
    /\ path = [p \in Procs |-> "absent"]
    /\ locks = [n \in {"filename", "base"} |-> "free"]
    /\ pc = [p \in Procs |-> "idle"]
    /\ call = [p \in Procs |-> IdleCall]
    /\ hist = [p \in Procs |-> IdleHist]
    /\ calls = 0
    /\ ok_fetches = 0

CacheIdle == CacheVarsIdle /\ ProbeIdle

\* A call verify_base_size(base, size, base_size) on a backend of kind k,
\* whose base image has the size disk_size (for rbd: or cannot be opened)
VerifyInit ==
    /\ \E k \in VerifyKinds, size \in {NoneV} \cup (0 .. MaxSize),
          base_size \in 0 .. MaxSize,
          disk_size \in (1 .. MaxSize) \cup {RbdError} :
          /\ disk_size = RbdError => k = "rbd"
          \* a caller that supplies base_size supplies the size of the base
          /\ Truthy(base_size) => disk_size = base_size
          /\ vb = [state |-> "called", kind |-> k, size |-> size,
                   base_size |-> base_size, disk_size |-> disk_size,
                   result |-> "none"]
    /\ CacheIdle /\ InfoIdle /\ FetchIdle /\ RbdVarsIdle

VerifyBaseSize ==
    /\ vb.state = "called"
    /\ vb' = [vb EXCEPT
                !.state = "done",
                !.result = verify_base_size(vb.kind, vb.size, vb.base_size,
                                            vb.disk_size)]
    /\ UNCHANGED <<cacheVars, di, df, rbdVars>>

SpecVerify == VerifyInit /\ [][VerifyBaseSize]_vars

\* the size of the base image is known to the call: supplied, or readable
BaseSizeKnown == Truthy(vb.base_size) \/ vb.disk_size # RbdError

\* C4: verify_base_size raises InstanceTypeDiskTooSmall for every non-empty
\* size below the size of the base image, on every backend, whether
\* base_size was supplied or had to be computed.
C4_RaisesWhenSmaller ==
    vb.state = "done" /\ Truthy(vb.size) /\ BaseSizeKnown
       /\ vb.size < vb.disk_size
    => vb.result = "InstanceTypeDiskTooSmall"

\* C5: verify_base_size raises nothing when size is None or zero, whatever
\* base_size is, and nothing when size is at least the size of the base.
C5_NoOpWhenEmpty ==
    vb.state = "done" /\ BaseSizeKnown
       /\ (vb.size = NoneV \/ vb.size = 0 \/ vb.size >= vb.disk_size)
    => vb.result = "ok"

(***************************************************************************)
(* Image.resolve_driver_format and the disk-format record (disk.info)     *)
(***************************************************************************)
\* The threads that resolve formats, and the process each runs in: w1 and w3
\* share a process, w2 runs in another one.  All use one disk_info_path.
Workers == {"w1", "w2", "w3"}
ProcOf == [w \in Workers |-> IF w = "w2" THEN "n2" ELSE "n1"]
InfoProcs == {"n1", "n2"}
Paths == {"A", "B"}
Formats == {"raw", "qcow2"}

\* The record is one line holding a JSON object {path: format}; an empty
\* line is the empty dict (_dict_from_line).  A dict maps a path it does not
\* hold to "none".
EmptyDct == [x \in Paths |-> "none"]

IdleWorker == [pc |-> "idle", path |-> "A", fmt |-> "none", dct |-> EmptyDct,
               result |-> "none", seen |-> "none", probed |-> FALSE]

\* file: the record file; lock: the lock named disk_info_path of each
\* process; w: the threads; persisted: the format first written for each
\* path; n: the calls made
InfoInit ==
    /\ di = [state |-> "on",
             file |-> [exists |-> FALSE, dct |-> EmptyDct],
             lock |-> [n \in InfoProcs |-> "free"],
             w |-> [x \in Workers |-> IdleWorker],
             persisted |-> EmptyDct,
             n |-> 0]
    /\ CacheIdle /\ VerifyIdle /\ FetchIdle /\ RbdVarsIdle

\* utils.synchronized(self.disk_info_path, external=False): the lock is a
\* semaphore of the calling process; no lock file is taken
info_lock_free(x) == di.lock[ProcOf[x]] = "free"

\* resolve_driver_format() is entered; the record exists and its line,
\* read without any lock, holds self.path: its format is returned
InfoResolveHit(x) ==
    /\ di.state = "on"
    /\ di.w[x].pc \in {"idle", "returned", "raised"}
    /\ di.n < MaxResolves
    /\ \E pth \in Paths :
          /\ di.file.exists /\ di.file.dct[pth] # "none"
          /\ di' = [di EXCEPT
                      !.n = @ + 1,
                      !.w[x] = [IdleWorker EXCEPT
                                  !.pc = "returned", !.path = pth,
                                  !.seen = di.persisted[pth],
                                  !.result = di.file.dct[pth]]]
    /\ UNCHANGED <<cacheVars, vb, df, rbdVars>>

\* resolve_driver_format() is entered; there is no record, or its line does
\* not hold self.path: _get_driver_format() is called
InfoResolveMiss(x) ==
    /\ di.state = "on"
    /\ di.w[x].pc \in {"idle", "returned", "raised"}
    /\ di.n < MaxResolves
    /\ \E pth \in Paths, fmt \in Formats :
          /\ ~(di.file.exists /\ di.file.dct[pth] # "none")
          /\ di' = [di EXCEPT
                      !.n = @ + 1,
                      !.w[x] = [IdleWorker EXCEPT
                                  !.pc = "w_lock", !.path = pth,
                                  !.seen = di.persisted[pth],
                                  !.fmt = fmt, !.probed = TRUE]]
    /\ UNCHANGED <<cacheVars, vb, df, rbdVars>>

\* write_to_disk_info_file: the lock is taken, the file is opened (and
\* created), its line is read; a line that holds self.path raises
\* InvalidDiskInfo
InfoLockRead(x) ==
    /\ di.state = "on"
    /\ di.w[x].pc = "w_lock"
    /\ info_lock_free(x)
    /\ IF di.file.dct[di.w[x].path] # "none"
       THEN di' = [di EXCEPT !.file.exists = TRUE,
                             !.w[x].pc = "raised",
                             !.w[x].result = "InvalidDiskInfo"]
       ELSE di' = [di EXCEPT
                     !.file.exists = TRUE,
                     !.lock[ProcOf[x]] = "held",
                     !.w[x].pc = "truncate",
                     !.w[x].dct = [di.file.dct EXCEPT
                                     ![di.w[x].path] = di.w[x].fmt]]
    /\ UNCHANGED <<cacheVars, vb, df, rbdVars>>

\* disk_info_file.seek(0); disk_info_file.truncate()
InfoTruncate(x) ==
    /\ di.state = "on"
    /\ di.w[x].pc = "truncate"
    /\ di' = [di EXCEPT !.file.dct = EmptyDct, !.w[x].pc = "write"]
    /\ UNCHANGED <<cacheVars, vb, df, rbdVars>>

\* disk_info_file.write(dumps(dct)); the file is closed, the lock released
\* and the probed format returned
InfoWrite(x) ==
    /\ di.state = "on"
    /\ di.w[x].pc = "write"
    /\ di' = [di EXCEPT
                !.file.dct = di.w[x].dct,
                !.lock[ProcOf[x]] = "free",
                !.persisted = [y \in Paths |->
                                 IF @[y] = "none" THEN di.w[x].dct[y] ELSE @[y]],
                !.w[x].pc = "returned",
                !.w[x].result = di.w[x].fmt,
                !.w[x].dct = EmptyDct]
    /\ UNCHANGED <<cacheVars, vb, df, rbdVars>>

InfoNext ==
    \E x \in Workers :
        \/ InfoResolveHit(x)
        \/ InfoResolveMiss(x)
        \/ InfoLockRead(x)
        \/ InfoTruncate(x)
        \/ InfoWrite(x)

SpecInfo == InfoInit /\ [][InfoNext]_vars

\* the thread is between the read and the write of write_to_disk_info_file
InfoCritical(x) == di.state = "on" /\ di.w[x].pc \in {"truncate", "write"}

\* no write of the record is under way
InfoQuiescent == \A x \in Workers : ~InfoCritical(x)

\* C6: a resolution that starts after a format f was persisted for its path
\* returns f, and does not call _get_driver_format().
C6_RoundTrip ==
    di.state = "on" =>
      \A x \in Workers :
         di.w[x].seen # "none" =>
            /\ ~di.w[x].probed
            /\ di.w[x].pc = "returned" => di.w[x].result = di.w[x].seen

\* C7: a path for which a format was written stays mapped to that format
\* in the record, in every state in which no write is under way.
C7_AppendOnly ==
    di.state = "on" /\ InfoQuiescent =>
      \A y \in Paths :
         di.persisted[y] # "none" => di.file.dct[y] = di.persisted[y]

\* C8: two threads of different processes that resolve different paths are
\* never both between the read and the write of the record, and once no
\* write is under way the record holds the path of every thread that has
\* written it.
C8_MutualExclusion ==
    di.state = "on" =>
      /\ \A x, z \in Workers :
            ProcOf[x] # ProcOf[z] /\ di.w[x].path # di.w[z].path =>
               ~(InfoCritical(x) /\ InfoCritical(z))
      /\ InfoQuiescent =>
            \A x \in Workers :
               di.w[x].pc = "returned" /\ di.w[x].probed =>
                  di.file.dct[di.w[x].path] # "none"

(***************************************************************************)
(* Rbd.direct_fetch, Rbd._is_cloneable and Rbd._parse_location             *)
(***************************************************************************)
\* A location url is a prefix followed by segments joined by '/': the
\* segments are what url[len(prefix):].split('/') returns.  The cluster of
\* this client has the fsid "f" and the pool "p", which holds the snapshot
\* "s" of the image "i" and nothing else; there is no pool "q".
Url(prefix, segs) == [prefix |-> prefix, segs |-> segs]

Locations ==
    {Url("http://", <<"f", "p", "i", "s">>),
     Url("rbd://", <<"f", "p", "i">>),
     Url("rbd://", <<"f", "", "i", "s">>),
     Url("rbd://", <<"g", "p", "i", "s">>),
     Url("rbd://", <<"f", "p", "j", "s">>),
     Url("rbd://", <<"f", "q", "i", "s">>),
     Url("rbd://", <<"f", "p", "i", "s">>),
     Url("rbd://", <<"%66", "p", "i", "s">>)}

LocationLists ==
    UNION {[1 .. n -> Locations] : n \in 0 .. MaxLocations}

ClusterFsid == "f"
ClusterPools == {"p"}
ClusterSnapshots == {<<"p", "i", "s">>}

\* urllib.unquote, on the segments used here
unquote(seg) == IF seg = "%66" THEN "f" ELSE seg

\* _parse_location(location): the pieces, or the reason of ImageUnacceptable
parse_location(url) ==
    IF url.prefix # "rbd://" THEN [ok |-> FALSE, reason |-> "Not stored in rbd"]
    ELSE LET pieces == [k \in 1 .. Len(url.segs) |-> unquote(url.segs[k])]
         IN IF \E k \in 1 .. Len(pieces) : pieces[k] = ""
            THEN [ok |-> FALSE, reason |-> "Blank components"]
            ELSE IF Len(pieces) # 4
            THEN [ok |-> FALSE, reason |-> "Not an rbd snapshot"]
            ELSE [ok |-> TRUE, pieces |-> pieces]

\* RBDVolumeProxy(self, image, pool=pool, snapshot=snapshot, read_only=True):
\* _connect_to_rados(pool) raises rados.Error when the pool cannot be
\* opened; rbd.Image raises rbd.Error when the snapshot cannot be opened
open_read_only(pool, image, snapshot) ==
    IF pool \notin ClusterPools THEN "rados.Error"
    ELSE IF <<pool, image, snapshot>> \notin ClusterSnapshots THEN "rbd.Error"
    ELSE "ok"

\* _is_cloneable(image_location): TRUE, FALSE, or the exception it lets
\* through.  It catches ImageUnacceptable of the parse and rbd.Error of the
\* open, nothing else.
is_cloneable(url) ==
    LET loc == parse_location(url)
    IN IF ~loc.ok THEN "False"
       ELSE IF ClusterFsid # loc.pieces[1] THEN "False"
       ELSE LET opened == open_read_only(loc.pieces[2], loc.pieces[3],
                                         loc.pieces[4])
            IN IF opened = "ok" THEN "True"
               ELSE IF opened = "rbd.Error" THEN "False"
               ELSE opened

\* Volume names are sequences of characters.  self.rbd_name is
\* <instance uuid>_<disk name>: "d" stands for the disk of this descriptor,
\* "dl" for another disk of the instance whose disk name extends this one
\* (disk and disk.local), "e" for a volume of another instance.
RbdName == <<"d">>
PoolNames == {<<"d">>, <<"d", "l">>, <<"e">>}

\* vol.startswith(name)
StartsWith(vol, name) ==
    Len(vol) >= Len(name) /\ SubSeq(vol, 1, Len(name)) = name

\* Rbd.check_image_exists(), the pool holding the volumes rbd_volumes
rbd_check_image_exists(rbd_volumes) ==
    \E vol \in rbd_volumes : StartsWith(vol, RbdName)

\* A call direct_fetch(image_id, image_meta, image_locations): volumes are
\* the volumes of the pool, exists is what check_image_exists() returns,
\* disk_format is image_meta's, layering what _supports_layering() returns.
\* examined: the locations _is_cloneable was called on; cloned: the
\* locations _clone was called with.
FetchInit ==
    /\ \E volumes \in SUBSET PoolNames, disk_format \in {"raw", "iso", "qcow2"},
          layering \in BOOLEAN, locs \in LocationLists :
          df = [state |-> "on", pc |-> "called", volumes |-> volumes,
                exists |-> rbd_check_image_exists(volumes),
                disk_format |-> disk_format, layering |-> layering,
                locs |-> locs, i |-> 1, examined |-> {}, cloned |-> <<>>,
                result |-> "none"]
    /\ CacheIdle /\ VerifyIdle /\ InfoIdle /\ RbdVarsIdle

\* the checks before the loop
DirectFetchEnter ==
    /\ df.state = "on" /\ df.pc = "called"
    /\ df' = IF df.exists
             THEN [df EXCEPT !.pc = "done", !.result = "returned"]
             ELSE IF df.disk_format \notin {"raw", "iso"}
             THEN [df EXCEPT !.pc = "done",
                             !.result = "ImageUnacceptable: not raw"]
             ELSE IF ~df.layering
             THEN [df EXCEPT !.pc = "done",
                             !.result = "ImageUnacceptable: no cloning"]
             ELSE [df EXCEPT !.pc = "scan"]
    /\ UNCHANGED <<cacheVars, vb, di, rbdVars>>

\* one round of the loop over image_locations
DirectFetchExamine ==
    /\ df.state = "on" /\ df.pc = "scan"
    /\ df.i <= Len(df.locs)
    /\ LET url == df.locs[df.i]
           c == is_cloneable(url)
       IN df' = IF c = "True"
                THEN [df EXCEPT !.examined = @ \cup {df.i},
                                !.cloned = Append(@, url),
                                !.pc = "done", !.result = "returned"]
                ELSE IF c = "False"
                THEN [df EXCEPT !.examined = @ \cup {df.i}, !.i = @ + 1]
                ELSE [df EXCEPT !.examined = @ \cup {df.i},
                                !.pc = "done", !.result = c]
    /\ UNCHANGED <<cacheVars, vb, di, rbdVars>>

\* the loop has ended without a clone
DirectFetchNone ==
    /\ df.state = "on" /\ df.pc = "scan"
    /\ df.i > Len(df.locs)
    /\ df' = [df EXCEPT !.pc = "done",
                        !.result = "ImageUnacceptable: no accessible location"]
    /\ UNCHANGED <<cacheVars, vb, di, rbdVars>>

FetchNext == DirectFetchEnter \/ DirectFetchExamine \/ DirectFetchNone

SpecFetch == FetchInit /\ [][FetchNext]_vars

\* a location as C10 calls it cloneable: an rbd:// URI of exactly 4
\* non-empty components, whose cluster id is this client's, and whose
\* snapshot can be opened read-only
Cloneable(url) ==
    /\ url.prefix = "rbd://"
    /\ Len(url.segs) = 4
    /\ \A k \in 1 .. 4 : url.segs[k] # ""
    /\ unquote(url.segs[1]) = ClusterFsid
    /\ <<unquote(url.segs[2]), unquote(url.segs[3]), unquote(url.segs[4])>>
          \in ClusterSnapshots

\* C10: direct_fetch for a volume that does not exist, a raw or ISO source
\* and layering supported clones the first cloneable location of the list
\* and nothing else, examines no location after it, and fails with "no
\* accessible location", cloning nothing, when no location is cloneable.
C10_FirstCloneable ==
    df.state = "on" /\ df.pc = "done" /\ ~df.exists
       /\ df.disk_format \in {"raw", "iso"} /\ df.layering
    => LET hits == {k \in 1 .. Len(df.locs) : Cloneable(df.locs[k])}
       IN IF hits # {}
          THEN LET first == CHOOSE k \in hits : \A m \in hits : k <= m
               IN /\ df.result = "returned"
                  /\ df.cloned = <<df.locs[first]>>
                  /\ df.examined = 1 .. first
          ELSE /\ df.result = "ImageUnacceptable: no accessible location"
               /\ df.cloned = <<>>

\* C11: direct_fetch returns without error and without cloning when the
\* volume exists; when it does not exist and the source format is neither
\* raw nor ISO, or layering is not supported, it fails with ImageUnacceptable
\* and clones nothing.
C11_ExistsOrUnsupported ==
    df.state = "on" /\ df.pc = "done" =>
       /\ RbdName \in df.volumes =>
             df.result = "returned" /\ df.cloned = <<>>
       /\ RbdName \notin df.volumes
             /\ (df.disk_format \notin {"raw", "iso"} \/ ~df.layering) =>
             /\ df.result \in {"ImageUnacceptable: not raw",
                               "ImageUnacceptable: no cloning"}
             /\ df.cloned = <<>>

(***************************************************************************)
(* Rbd.direct_snapshot and Rbd._create_snapshot                            *)
(***************************************************************************)
\* Names and location strings are sequences of characters.  The literals
\* '_clone_', 'snap' and the deletion marker hold neither '/' nor '%' and
\* stand as one element each.
NameChars == {"s", "/", "%", "6"}
Names == UNION {[1 .. n -> NameChars] : n \in 0 .. MaxNameLen}
\* the pool names, volume names and cluster ids tried
SmallNames == {<<"s">>, <<"%", "6", "6">>}

\* urllib.unquote: %xx with two hexadecimal digits becomes the character of
\* that code ("%66" is "f"); everything else stays
RECURSIVE unquote_str(_)
unquote_str(str) ==
    IF str = <<>> THEN <<>>
    ELSE IF Len(str) >= 3 /\ str[1] = "%" /\ str[2] = "6" /\ str[3] = "6"
    THEN <<"f">> \o unquote_str(SubSeq(str, 4, Len(str)))
    ELSE <<str[1]>> \o unquote_str(SubSeq(str, 2, Len(str)))

\* str.split('/')
RECURSIVE split_slash(_)
split_slash(str) ==
    IF \A k \in 1 .. Len(str) : str[k] # "/" THEN <<str>>
    ELSE LET k == CHOOSE i \in 1 .. Len(str) :
                     str[i] = "/" /\ \A j \in 1 .. i - 1 : str[j] # "/"
         IN <<SubSeq(str, 1, k - 1)>> \o split_slash(SubSeq(str, k + 1, Len(str)))

\* _parse_location of the string 'rbd://' + body
parse_location_str(body) ==
    LET raw == split_slash(body)
        pieces == [k \in 1 .. Len(raw) |-> unquote_str(raw[k])]
    IN IF \E k \in 1 .. Len(pieces) : pieces[k] = <<>>
       THEN [ok |-> FALSE, reason |-> "Blank components"]
       ELSE IF Len(pieces) # 4
       THEN [ok |-> FALSE, reason |-> "Not an rbd snapshot"]
       ELSE [ok |-> TRUE, pieces |-> pieces]

\* 'rbd://{fsid}/{pool}/{image}/{snap}'.format(...), without the prefix
format_location(fsid, pool, image, snap) ==
    fsid \o <<"/">> \o pool \o <<"/">> \o image \o <<"/">> \o snap

\* rbd_snap_name = snapshot_name + deletion_marker
rbd_snap_name(snapshot_name) == snapshot_name \o <<"_to_be_deleted_by_glance">>
\* clone_name = self.rbd_name + '_clone_' + snapshot_name
clone_name(rbd_name, snapshot_name) == rbd_name \o <<"_clone_">> \o snapshot_name
clone_snap == <<"snap">>

\* _create_snapshot(name, snap_name) on the snapshots snaps of the pool:
\* volume.create_snap(snap); if self._supports_layering():
\* volume.protect_snap(snap).  how: "ok", or the call that raises rbd.Error
\* (variant: protect_snap is never called)
create_snapshot_unprotected(snaps, name, snap_name, layering, how) ==
    IF how \in {"open", "create_snap"} THEN snaps
    ELSE snaps \cup {[image |-> name, snap |-> snap_name, protected |-> FALSE]}
create_snapshot(snaps, name, snap_name, layering, how) ==
    IF how \in {"open", "create_snap"} THEN snaps
    ELSE snaps \cup {[image |-> name, snap |-> snap_name,
                      protected |-> layering /\ how = "ok"]}

\* the outcomes of _create_snapshot: protect_snap is only called, and can
\* only raise, with layering
SnapshotOutcomes(layering) ==
    {"ok", "open", "create_snap"} \cup (IF layering THEN {"protect_snap"} ELSE {})

\* A call direct_snapshot(snapshot_name, image_format, image_id) on the
\* descriptor of the volume rbd_name in the pool `pool` of the cluster fsid;
\* snaps and clones are the snapshots and the derivative volumes of the pool;
\* failed is the step that raised
SnapInit ==
    /\ \E snapshot_name \in Names, image_format \in {"raw", "qcow2"},
          layering \in BOOLEAN, rbd_name \in SmallNames, pool \in SmallNames,
          fsid \in SmallNames :
          sn = [state |-> "on", pc |-> "called", snapshot_name |-> snapshot_name,
                image_format |-> image_format, layering |-> layering,
                rbd_name |-> rbd_name, pool |-> pool, fsid |-> fsid,
                snaps |-> {}, clones |-> {}, result |-> "none",
                location |-> <<>>, failed |-> "none"]
    /\ CacheIdle /\ VerifyIdle /\ InfoIdle /\ FetchIdle
    /\ SessIdle /\ LegacyIdle /\ RbdIdle

\* the checks of image_format and of _supports_layering()
SnapEnter ==
    /\ sn.state = "on" /\ sn.pc = "called"
    /\ sn' = IF sn.image_format # "raw"
             THEN [sn EXCEPT !.pc = "done",
                             !.result = "ImageUnacceptable: only raw"]
             ELSE IF ~sn.layering
             THEN [sn EXCEPT !.pc = "done",
                             !.result = "ImageUnacceptable: librbd is too old"]
             ELSE [sn EXCEPT !.pc = "first_snapshot"]
    /\ UNCHANGED <<cacheVars, vb, di, df, rs, lg, rc>>

\* self._create_snapshot(self.rbd_name, rbd_snap_name)
SnapFirst ==
    /\ sn.state = "on" /\ sn.pc = "first_snapshot"
    /\ \E how \in SnapshotOutcomes(sn.layering) :
          sn' = [sn EXCEPT
                   !.snaps = create_snapshot(@, sn.rbd_name,
                                 rbd_snap_name(sn.snapshot_name), sn.layering, how),
                   !.pc = IF how = "ok" THEN "clone" ELSE "done",
                   !.result = IF how = "ok" THEN @ ELSE "rbd.Error",
                   !.failed = IF how = "ok" THEN @ ELSE "first_snapshot"]
    /\ UNCHANGED <<cacheVars, vb, di, df, rs, lg, rc>>

\* self._clone(self.pool, self.rbd_name, rbd_snap_name, clone_name)
SnapClone ==
    /\ sn.state = "on" /\ sn.pc = "clone"
    /\ \/ sn' = [sn EXCEPT
                    !.clones = @ \cup {clone_name(sn.rbd_name, sn.snapshot_name)},
                    !.pc = "second_snapshot"]
       \/ sn' = [sn EXCEPT !.pc = "done", !.result = "rbd.Error",
                           !.failed = "clone"]
    /\ UNCHANGED <<cacheVars, vb, di, df, rs, lg, rc>>

\* self._create_snapshot(clone_name, clone_snap)
SnapSecond ==
    /\ sn.state = "on" /\ sn.pc = "second_snapshot"
    /\ \E how \in SnapshotOutcomes(sn.layering) :
          sn' = [sn EXCEPT
                   !.snaps = create_snapshot(@,
                                 clone_name(sn.rbd_name, sn.snapshot_name),
                                 clone_snap, sn.layering, how),
                   !.pc = IF how = "ok" THEN "get_fsid" ELSE "done",
                   !.result = IF how = "ok" THEN @ ELSE "rbd.Error",
                   !.failed = IF how = "ok" THEN @ ELSE "second_snapshot"]
    /\ UNCHANGED <<cacheVars, vb, di, df, rs, lg, rc>>

\* fsid = self._get_fsid(); return 'rbd://{fsid}/{pool}/{image}/{snap}'
SnapReturn ==
    /\ sn.state = "on" /\ sn.pc = "get_fsid"
    /\ \/ sn' = [sn EXCEPT
                    !.pc = "done", !.result = "returned",
                    !.location = format_location(sn.fsid, sn.pool,
                                     clone_name(sn.rbd_name, sn.snapshot_name),
                                     clone_snap)]
       \/ sn' = [sn EXCEPT !.pc = "done", !.result = "rados.Error",
                           !.failed = "get_fsid"]
    /\ UNCHANGED <<cacheVars, vb, di, df, rs, lg, rc>>

SnapNext == SnapEnter \/ SnapFirst \/ SnapClone \/ SnapSecond \/ SnapReturn

SpecSnapshot == SnapInit /\ [][SnapNext]_vars

\* C12: the location returned by a successful direct_snapshot parses into
\* exactly 4 non-empty components: the cluster id, the pool, the name of
\* the derivative volume and the name of the second snapshot.
C12_LocationParses ==
    sn.state = "on" /\ sn.pc = "done" /\ sn.result = "returned" =>
       LET loc == parse_location_str(sn.location)
       IN /\ loc.ok
          /\ loc.pieces = <<sn.fsid, sn.pool,
                            clone_name(sn.rbd_name, sn.snapshot_name), clone_snap>>

\* the first snapshot, on the live volume, and the second, on the derivative
FirstSnapshot(protected) ==
    [image |-> sn.rbd_name, snap |-> rbd_snap_name(sn.snapshot_name),
     protected |-> protected]
SecondSnapshot(protected) ==
    [image |-> clone_name(sn.rbd_name, sn.snapshot_name), snap |-> clone_snap,
     protected |-> protected]

\* C13 as stated: after a successful direct_snapshot the first snapshot is
\* protected and the second snapshot is unprotected.
C13_SecondUnprotected ==
    sn.state = "on" /\ sn.pc = "done" /\ sn.result = "returned" =>
       /\ FirstSnapshot(TRUE) \in sn.snaps
       /\ SecondSnapshot(FALSE) \in sn.snaps

\* C13 as amended: after a successful direct_snapshot the first snapshot,
\* named with the deletion-marker suffix on the live volume, and the second
\* snapshot, on the derivative volume, both exist and both are protected.
C13_BothProtected ==
    sn.state = "on" /\ sn.pc = "done" /\ sn.result = "returned" =>
       /\ FirstSnapshot(TRUE) \in sn.snaps
       /\ SecondSnapshot(TRUE) \in sn.snaps
       /\ FirstSnapshot(FALSE) \notin sn.snaps
       /\ SecondSnapshot(FALSE) \notin sn.snaps

\* a direct_snapshot has returned a location
C13_Witness ==
    /\ sn.state = "on" /\ sn.pc = "done" /\ sn.result = "returned"
    /\ sn.image_format = "raw" /\ sn.layering
    /\ sn.clones # {}

(***************************************************************************)
(* Raw.create_image end to end                                             *)
(***************************************************************************)
\* the call cache(fetch, filename, size) of p with a size above the base's
\* and the kwargs key kw has returned; it was entered with neither the base
\* nor the target existing and no other call ran meanwhile
RawEndToEnd(p, kw) ==
    /\ kind[p] = "raw" /\ pc[p] = "returned"
    /\ call[p].kw = kw /\ call[p].size = BaseVirtualSize + 1
    /\ hist[p].entry_none /\ hist[p].alone

\* fetch on the base, verify_base_size(base, size), copy_image, extend to size
TemplatedTrace(size) ==
    <<Ev("fetch_base", NoneV), Ev("verify_base_size", size),
      Ev("copy_image", NoneV), Ev("extend", size)>>

\* C16 as stated: cache(fetch, filename, size=s) with no further keyword, on
\* the flat backend with no base and no target, calls fetch once on the
\* base, then verifies the base size against s, then copies the base to the
\* target, then extends the target to s.
C16_EndToEnd ==
    \A p \in Procs :
        RawEndToEnd(p, "none") => hist[p].trace = TemplatedTrace(call[p].size)

\* C16, amended: the same for the call that names its source image
\* (image_id in kwargs).
C16_EndToEndWithImageId ==
    \A p \in Procs :
        RawEndToEnd(p, "image_id") => hist[p].trace = TemplatedTrace(call[p].size)

C16_Witness == \E p \in Procs : RawEndToEnd(p, "image_id")

(***************************************************************************)
(* Qcow2.create_image: detection of a legacy backing file                  *)
(***************************************************************************)
\* sizes are counted in MiB here: 1024 * 1024 * 1024 bytes
GiB == 1024

DigitChars == <<"0", "1", "2", "3", "4", "5", "6", "7", "8", "9">>
IsDigitChar(c) == \E d \in 1..10 : DigitChars[d] = c
DigitValue(c) == (CHOOSE d \in 1..10 : DigitChars[d] = c) - 1

\* the characters of the names of backing files, and the names
BackingChars == {"b", "_", "0", "1", "7"}
BackingFiles ==
    UNION {[1..n -> BackingChars] : n \in 0..MaxBackingLen}

\* backing_file.rpartition('_'): <<head, sep, tail>> around the last '_', or
\* <<'', '', backing_file>> when there is none
rpartition(str) ==
    LET at == {i \in 1..Len(str) : str[i] = "_"}
    IN IF at = {} THEN << <<>>, <<>>, str >>
       ELSE LET i == CHOOSE j \in at : \A k \in at : k <= j
            IN <<SubSeq(str, 1, i - 1), <<"_">>, SubSeq(str, i + 1, Len(str))>>

\* str.isdigit(): not empty and every character a digit
isdigit(str) == Len(str) > 0 /\ \A i \in 1..Len(str) : IsDigitChar(str[i])

\* int(str) of a string of digits
RECURSIVE int(_)
int(str) ==
    IF str = <<>> THEN 0
    ELSE 10 * int(SubSeq(str, 1, Len(str) - 1)) + DigitValue(str[Len(str)])

\* '%d' % n for n >= 0
RECURSIVE format_d(_)
format_d(n) ==
    IF n < 10 THEN <<DigitChars[n + 1]>>
    ELSE format_d(n \div 10) \o <<DigitChars[(n % 10) + 1]>>

\* the test of line 405 (variant: without backing_file != backing_parts[-1])
is_legacy_backing_no_underscore(backing_file) ==
    isdigit(rpartition(backing_file)[3])
is_legacy_backing(backing_file) ==
    backing_file # rpartition(backing_file)[3]
       /\ isdigit(rpartition(backing_file)[3])

\* lines 395-410: legacy_backing_size and legacy_base, from whether
\* self.path exists, whether it has a backing file, the name of that file and
\* the base path
legacy_backing(path_exists, has_backing, backing_file, base_path) ==
    IF path_exists /\ has_backing /\ is_legacy_backing(backing_file)
    THEN LET n == int(rpartition(backing_file)[3])
         IN [legacy_backing_size |-> n * GiB,
             legacy_base |-> base_path \o <<"_">> \o format_d(n)]
    ELSE [legacy_backing_size |-> NoneV, legacy_base |-> base_path]

BasePath == <<"b">>

\* files: the files that exist beside the base
LegacyInit ==
    /\ \E f \in BackingFiles, pe \in BOOLEAN, hb \in BOOLEAN, le \in BOOLEAN :
          /\ hb => pe
          /\ ~hb => f = <<>>
          /\ lg = [state |-> "on", pc |-> "detect", path_exists |-> pe,
                   has_backing |-> hb, backing_file |-> f,
                   legacy_backing_size |-> NoneV, legacy_base |-> BasePath,
                   files |-> IF le THEN {BasePath \o <<"_", "1">>} ELSE {},
                   materialized |-> FALSE]
    /\ CacheIdle /\ VerifyIdle /\ InfoIdle /\ FetchIdle
    /\ SnapIdle /\ SessIdle /\ RbdIdle

\* lines 395-410
LegacyDetect ==
    /\ lg.state = "on" /\ lg.pc = "detect"
    /\ LET r == legacy_backing(lg.path_exists, lg.has_backing, lg.backing_file,
                               BasePath)
       IN lg' = [lg EXCEPT !.legacy_backing_size = r.legacy_backing_size,
                           !.legacy_base = r.legacy_base, !.pc = "materialize"]
    /\ UNCHANGED <<cacheVars, vb, di, df, sn, rs, rc>>

\* lines 412-417: if legacy_backing_size: if not os.path.exists(legacy_base):
\*     copy_image(base, legacy_base); disk.extend(legacy_base, ...)
LegacyMaterialize ==
    /\ lg.state = "on" /\ lg.pc = "materialize"
    /\ IF Truthy(lg.legacy_backing_size) /\ lg.legacy_base \notin lg.files
       THEN lg' = [lg EXCEPT !.files = @ \cup {lg.legacy_base},
                             !.materialized = TRUE, !.pc = "done"]
       ELSE lg' = [lg EXCEPT !.pc = "done"]
    /\ UNCHANGED <<cacheVars, vb, di, df, sn, rs, rc>>

LegacyNext == LegacyDetect \/ LegacyMaterialize

SpecLegacy == LegacyInit /\ [][LegacyNext]_vars

\* the backing file is named <prefix>_<digits>, the digits being `digits`
HasDigitSuffix(backing_file, digits) ==
    /\ Len(digits) > 0
    /\ \A i \in 1..Len(digits) : digits[i] \in {"0", "1", "7"}
    /\ Len(backing_file) > Len(digits)
    /\ SubSeq(backing_file, Len(backing_file) - Len(digits) + 1,
              Len(backing_file)) = digits
    /\ backing_file[Len(backing_file) - Len(digits)] = "_"

\* the number a string of the digits 0, 1, 7 denotes
RECURSIVE Pow10(_)
Pow10(k) == IF k = 0 THEN 1 ELSE 10 * Pow10(k - 1)
RECURSIVE NumericValue(_)
NumericValue(digits) ==
    IF digits = <<>> THEN 0
    ELSE (CASE Head(digits) = "0" -> 0 [] Head(digits) = "1" -> 1
            [] Head(digits) = "7" -> 7) * Pow10(Len(digits) - 1)
         + NumericValue(Tail(digits))

DigitStrings == UNION {[1..n -> {"0", "1", "7"}] : n \in 1..MaxBackingLen}

\* C17: after the detection on an existing copy-on-write target with a
\* backing file: if the file is named <prefix>_<digits> with value n, the
\* legacy size is n GiB and the legacy base is named <base>_<n in decimal>,
\* which is not the base; if the name has no underscore or the part after
\* its last underscore is not all digits, the legacy size is None, the
\* legacy base is the base and nothing is materialized.
C17_LegacyDetection ==
    lg.state = "on" /\ lg.pc # "detect" /\ lg.path_exists /\ lg.has_backing =>
       IF \E d \in DigitStrings : HasDigitSuffix(lg.backing_file, d)
       THEN \A d \in DigitStrings :
               HasDigitSuffix(lg.backing_file, d) =>
                  /\ lg.legacy_backing_size = NumericValue(d) * GiB
                  /\ \E t \in DigitStrings :
                        /\ lg.legacy_base = BasePath \o <<"_">> \o t
                        /\ NumericValue(t) = NumericValue(d)
                        /\ (Len(t) > 1 => t[1] # "0")
                  /\ lg.legacy_base # BasePath
       ELSE /\ lg.legacy_backing_size = NoneV
            /\ lg.legacy_base = BasePath
            /\ ~lg.materialized /\ (lg.pc = "done" => lg.files \subseteq {BasePath \o <<"_", "1">>})

\* a legacy base was derived from a name with leading zeros and materialized
C17_Witness ==
    /\ lg.state = "on" /\ lg.pc = "done" /\ lg.materialized
    /\ lg.backing_file = <<"b", "_", "0", "7">>
    /\ lg.legacy_base = <<"b", "_", "7">>

(***************************************************************************)
(* Qcow2.create_image: materializing the legacy base                       *)
(***************************************************************************)
\* p is inside `with fileutils.remove_path_on_error(legacy_base)`: it found
\* the legacy base missing and is copying the base to it or about to extend
\* the copy
InLegacy(p) == pc[p] \in {"legacy_copy", "legacy_extend"}

\* C18: two processes are never both materializing the legacy base (copying
\* the base to it and extending it), and while one materializes it no other
\* process writes it.
C18_LegacyMaterializedOnce ==
    \A p, q \in Procs : p # q => ~(InLegacy(p) /\ InLegacy(q))

(***************************************************************************)
(* Lvm.create_image, templated                                             *)
(***************************************************************************)
\* the call of p takes the else branch of `if generated and size`
LvmTemplated(p) ==
    /\ kind[p] = "lvm" /\ hist[p].create
    /\ ~(call[p].kw = "ephemeral_size" /\ Truthy(call[p].size))

\* the commands of p's call after the fetch of the base, if there was one
AfterFetch(p) ==
    IF hist[p].trace # <<>> /\ hist[p].trace[1].op = "fetch_base"
    THEN Tail(hist[p].trace) ELSE hist[p].trace

\* the larger of the requested size and the base's; the base's when no size
\* is requested
LargerSize(size, base_size) ==
    IF size = NoneV THEN base_size
    ELSE IF size >= base_size THEN size ELSE base_size

\* what the templated branch runs for a requested size when nothing fails
LvmTemplatedTrace(size) ==
    <<Ev("verify_base_size", size),
      Ev("create_lvm_image", LargerSize(size, BaseDiskSize)),
      Ev("convert_image", NoneV)>>
       \o (IF size # NoneV /\ size > BaseDiskSize
           THEN <<Ev("resize2fs", NoneV)>> ELSE <<>>)

IsPrefix(a, b) == Len(a) <= Len(b) /\ a = SubSeq(b, 1, Len(a))

\* C19: the templated branch of the logical-volume backend runs, holding the
\* lock named by the base, the size verification, then the allocation with
\* size max(requested, base size), then the conversion, then resize2fs if
\* and only if the requested size is above the base size; it allocates only
\* when the verification passed, and runs all of them when it returns.
C19_LvmTemplated ==
    \A p \in Procs :
        /\ pc[p] \in {"lvm_get_size", "lvm_lvcreate", "lvm_convert", "lvm_resize2fs"}
              => locks["base"] = p
        /\ LvmTemplated(p) =>
              /\ IsPrefix(AfterFetch(p), LvmTemplatedTrace(call[p].size))
              /\ Len(AfterFetch(p)) >= 2 =>
                    (call[p].size = NoneV \/ call[p].size >= BaseDiskSize)
              /\ pc[p] = "returned" =>
                    AfterFetch(p) = LvmTemplatedTrace(call[p].size)

\* a templated call with a size above the base's has returned, and one with
\* no size
C19_Witness ==
    \E p \in Procs :
        /\ LvmTemplated(p) /\ pc[p] = "returned"
        /\ call[p].size = BaseVirtualSize + 1
        /\ Ev("resize2fs", NoneV) = hist[p].trace[Len(hist[p].trace)]

(***************************************************************************)
(* Qcow2.create_image: verification of the base                            *)
(***************************************************************************)
\* the commands of p's call hold op, and a verify_base_size before it
VerifiedBefore(p, op) ==
    \A i \in 1..Len(hist[p].trace) :
        hist[p].trace[i].op = op =>
           \E j \in 1..(i - 1) : hist[p].trace[j].op = "verify_base_size"

\* C21: in every create_image call of the copy-on-write backend with a
\* requested size, verify_base_size has been called before the overlay is
\* created, also in the call that fetched the base.
C21_VerifiedBeforeOverlay ==
    \A p \in Procs :
        kind[p] = "qcow2" /\ Truthy(call[p].size) =>
           VerifiedBefore(p, "create_cow_image")

\* C24: when direct_snapshot has raised from its clone step or from its
\* second snapshot, the pool holds the snapshots and the derivative volumes
\* it held before the call (none).
C24_RollbackOnFailure ==
    sn.state = "on" /\ sn.pc = "done"
       /\ sn.failed \in {"clone", "second_snapshot"} =>
       sn.snaps = {} /\ sn.clones = {}

(***************************************************************************)
(* Lvm.remove_volume_on_error                                              *)
(***************************************************************************)
\* C25: a step of a logical-volume call that removes the volume removes a
\* volume that this call allocated.
C25_DestroysOnlyOwnVolume ==
    [][\A p \in Procs :
          kind[p] = "lvm" /\ Exists(path[p]) /\ ~Exists(path'[p]) =>
             "path" \in hist[p].visible]_vars

(***************************************************************************)
(* Qcow2.create_image and the fetch of the base by another process         *)
(***************************************************************************)
\* q is inside fetch_func(target=base), holding the filename lock
FetchingBase(q) == InFetch(q) /\ call[q].wtarget = "base"

\* this step of p verifies the base, creates an overlay on it, or copies it
\* to the legacy base
UsesBase(p) ==
    \/ /\ Len(hist'[p].trace) = Len(hist[p].trace) + 1
       /\ hist'[p].trace[Len(hist'[p].trace)].op
             \in {"verify_base_size", "create_cow_image"}
    \/ pc[p] = "legacy_copy" /\ pc'[p] # "legacy_copy"

\* C27: no step of a copy-on-write create_image verifies the base, copies
\* from it or creates an overlay on it while another process is inside the
\* fetch callback for the base.
C27_WaitsForFetch ==
    [][\A p, q \in Procs :
          p # q /\ kind[p] = "qcow2" /\ FetchingBase(q) => ~UsesBase(p)]_vars

(***************************************************************************)
(* The preallocation probe: the end of Image.cache and _can_fallocate      *)
(***************************************************************************)
ProbeKinds == {"raw", "qcow2", "lvm", "rbd"}

\* the classes that inherit Image._can_fallocate; Lvm and Rbd override it
\* with `return False`
ProbingKinds == {"raw", "qcow2"}

\* if can_fallocate is None  (variant: the probe is run on every call)
needs_probe_always(attr) == TRUE
needs_probe(attr) == attr = "None"

\* self.preallocate as the constructors set it: CONF.preallocate_images !=
\* 'none' (Raw, Qcow2), not CONF.libvirt_sparse_logical_volumes (Lvm), False
\* (Rbd keeps Image.__init__'s)
PreallocateValues(k) == IF k = "rbd" THEN {FALSE} ELSE BOOLEAN

\* what no step of the probe changes
probeFrame == <<conf_lvm, kind, base, path, legacy_base, legacy_backed, locks,
                pc, call, hist, calls, ok_fetches, vb, di, df, rbdVars>>

\* One process, one call after the other.  can_fallocate[k]: the class
\* attribute of the class of kind k; test_file: self.path +
\* '.fallocate_test' exists; probes[k]: the executions of the probe command
\* for kind k; first[k]: the result of the first probe; fallocates[k]: the
\* fallocate commands cache() has issued for kind k; k, writable, err,
\* result: the current call's descriptor kind, os.access(path, W_OK),
\* trycmd's err and the value of _can_fallocate()
ProbeInit ==
    /\ fa = [state |-> "on", pc |-> "idle", k |-> "raw", writable |-> FALSE,
             can_fallocate |-> [c \in ProbingKinds |-> "None"],
             test_file |-> FALSE, err |-> FALSE, result |-> "none",
             probes |-> [c \in ProbeKinds |-> 0],
             first |-> [c \in ProbingKinds |-> "None"],
             fallocates |-> [c \in ProbeKinds |-> 0], n |-> 0]
    /\ CacheVarsIdle /\ VerifyIdle /\ InfoIdle /\ FetchIdle /\ RbdVarsIdle

\* the end of cache() on a descriptor of kind k:
\* if (size and self.preallocate and self._can_fallocate() and ...
\* _can_fallocate() is called when size and self.preallocate are true
ProbeCacheTail ==
    /\ fa.state = "on" /\ fa.pc = "idle"
    /\ fa.n < MaxProbeCalls
    /\ \E k \in ProbeKinds, size \in {NoneV, 0, 1}, w \in BOOLEAN :
          \E preallocate \in PreallocateValues(k) :
             fa' = [fa EXCEPT !.k = k, !.writable = w, !.result = "none",
                              !.n = @ + 1,
                              !.pc = IF Truthy(size) /\ preallocate
                                     THEN "can_fallocate" ELSE "idle"]
    /\ UNCHANGED probeFrame

\* _can_fallocate(): Lvm's and Rbd's return False; Image's reads the class
\* attribute and returns it unless it is None
ProbeCanFallocate ==
    /\ fa.state = "on" /\ fa.pc = "can_fallocate"
    /\ fa' = IF fa.k \notin ProbingKinds
             THEN [fa EXCEPT !.result = "False", !.pc = "decide"]
             ELSE IF needs_probe(fa.can_fallocate[fa.k])
             THEN [fa EXCEPT !.pc = "trycmd"]
             ELSE [fa EXCEPT !.result = fa.can_fallocate[fa.k], !.pc = "decide"]
    /\ UNCHANGED probeFrame

\* _out, err = utils.trycmd('fallocate', '-n', '-l', '1', test file): the
\* command fails or not, and has made the test file or not
ProbeTrycmd ==
    /\ fa.state = "on" /\ fa.pc = "trycmd"
    /\ \E err \in BOOLEAN, made \in BOOLEAN :
          fa' = [fa EXCEPT !.err = err, !.test_file = @ \/ made,
                           !.probes[fa.k] = @ + 1, !.pc = "delete"]
    /\ UNCHANGED probeFrame

\* fileutils.delete_if_exists(test file); can_fallocate = not err;
\* self.__class__.can_fallocate = can_fallocate; return can_fallocate
ProbeDelete ==
    /\ fa.state = "on" /\ fa.pc = "delete"
    /\ LET r == IF fa.err THEN "False" ELSE "True"
       IN fa' = [fa EXCEPT !.test_file = FALSE, !.err = FALSE,
                           !.can_fallocate[fa.k] = r,
                           !.first[fa.k] = IF @ = "None" THEN r ELSE @,
                           !.result = r, !.pc = "decide"]
    /\ UNCHANGED probeFrame

\* ... and os.access(self.path, os.W_OK)):
\*     utils.execute('fallocate', '-n', '-l', size, self.path)
ProbeFallocate ==
    /\ fa.state = "on" /\ fa.pc = "decide"
    /\ fa' = IF fa.result = "True" /\ fa.writable
             THEN [fa EXCEPT !.fallocates[fa.k] = @ + 1, !.pc = "idle"]
             ELSE [fa EXCEPT !.pc = "idle"]
    /\ UNCHANGED probeFrame

ProbeNext ==
    \/ ProbeCacheTail \/ ProbeCanFallocate \/ ProbeTrycmd \/ ProbeDelete
    \/ ProbeFallocate

SpecProbe == ProbeInit /\ [][ProbeNext]_vars

\* C23: the probe command is run at most once for the flat backend and at
\* most once for the copy-on-write backend; a call of _can_fallocate returns
\* the result of the first probe of its kind; the test file is gone when the
\* probe is over; the logical-volume and network-block backends run no
\* probe, report False, and get no fallocate command from cache().
C23_ProbedOncePerKind ==
    fa.state = "on" =>
       /\ \A c \in ProbingKinds : fa.probes[c] <= 1
       /\ \A c \in ProbeKinds \ ProbingKinds :
             fa.probes[c] = 0 /\ fa.fallocates[c] = 0
       /\ fa.pc \in {"idle", "decide", "can_fallocate"} => ~fa.test_file
       /\ fa.pc = "decide" =>
             IF fa.k \in ProbingKinds THEN fa.result = fa.first[fa.k]
             ELSE fa.result = "False"

\* the flat backend has answered a second call from its cached True while
\* the copy-on-write backend has cached False
C23_Witness ==
    /\ fa.state = "on" /\ fa.pc = "decide" /\ fa.n = 3 /\ fa.k = "raw"
    /\ fa.probes = [c \in ProbeKinds |-> IF c \in ProbingKinds THEN 1 ELSE 0]
    /\ fa.can_fallocate = [c \in ProbingKinds |->
                             IF c = "raw" THEN "True" ELSE "False"]
    /\ fa.result = "True"

(***************************************************************************)
(* Cluster sessions: Rbd._connect_to_rados, Rbd._disconnect_from_rados,    *)
(* RADOSClient, RBDVolumeProxy and their users                             *)
(***************************************************************************)
\* The operations: _get_fsid (one RADOSClient), _clone (two nested
\* RADOSClients), and the use of a volume handle (with RBDVolumeProxy(...)).
SessionOps == {"get_fsid", "clone", "volume"}

\* a connection: not made, connected (client.connect() was called), shut down
NoSession == [client |-> "none", ioctx |-> "none"]

\* _connect_to_rados(pool): what it leaves of the connection and what it
\* returns or raises.  how: "ok", or the statement of the try block that
\* raises: connect and open_ioctx raise rados.Error, str(pool) raises
\* UnicodeEncodeError.
connect_to_rados(how) ==
    IF how = "ok"
    THEN [session |-> [client |-> "connected", ioctx |-> "open"], raised |-> "none"]
    ELSE IF how \in {"connect", "open_ioctx"}
    THEN [session |-> [client |-> "shutdown", ioctx |-> "none"],
          raised |-> "rados.Error"]
    ELSE [session |-> [client |-> "connected", ioctx |-> "none"],
          raised |-> "UnicodeEncodeError"]

\* the ways _connect_to_rados(pool) can go: str(pool or self.pool) can only
\* raise for a pool that is given and is a unicode name outside ASCII
ConnectOutcomes(unicode_pool) ==
    {"ok", "connect", "open_ioctx"}
       \cup (IF unicode_pool THEN {"str(pool)"} ELSE {})

\* _disconnect_from_rados(client, ioctx): ioctx.close(); client.shutdown()
disconnect_from_rados(session) == [client |-> "shutdown", ioctx |-> "closed"]
DisconnectLog == <<"ioctx.close", "client.shutdown">>

\* One operation at a time.  s: the connections of the operation (1: the
\* outer or only one, 2: the inner one of _clone); volume: the rbd.Image of
\* a volume handle; log: the closes in the order they were made; n: the
\* operations started; leaked: the connections that earlier operations left
\* connected; unicode_pool: the handle is asked for a pool whose
\* name is unicode outside ASCII
SessInit ==
    /\ rs = [state |-> "on", op |-> "none", pc |-> "idle",
             s |-> [k \in {1, 2} |-> NoSession], volume |-> "none",
             unicode_pool |-> FALSE, log |-> <<>>, result |-> "none", n |-> 0,
             leaked |-> 0]
    /\ CacheIdle /\ VerifyIdle /\ InfoIdle /\ FetchIdle
    /\ SnapIdle /\ LegacyIdle /\ RbdIdle

\* an operation starts
SessStart ==
    /\ rs.state = "on" /\ rs.pc \in {"idle", "done"}
    /\ rs.n < MaxOps
    /\ \E op \in SessionOps, u \in BOOLEAN :
          /\ u => op = "volume"
          /\ rs' = [rs EXCEPT !.op = op, !.pc = "connect", !.unicode_pool = u,
                              !.s = [k \in {1, 2} |-> NoSession],
                              !.volume = "none", !.log = <<>>,
                              !.result = "none", !.n = @ + 1,
                              !.leaked = @ + Cardinality(
                                 {k \in {1, 2} : rs.s[k].client = "connected"})]
    /\ UNCHANGED <<cacheVars, vb, di, df, sn, lg, rc>>

\* RADOSClient.__init__ / RBDVolumeProxy.__init__: _connect_to_rados(pool)
\* for the first connection of the operation
SessConnect ==
    /\ rs.state = "on" /\ rs.pc = "connect"
    /\ \E how \in ConnectOutcomes(rs.unicode_pool) :
          LET c == connect_to_rados(how)
          IN rs' = [rs EXCEPT
                      !.s[1] = c.session,
                      !.pc = IF c.raised # "none" THEN "done"
                             ELSE IF rs.op = "clone" THEN "connect2"
                             ELSE IF rs.op = "volume" THEN "open"
                             ELSE "body",
                      !.result = c.raised]
    /\ UNCHANGED <<cacheVars, vb, di, df, sn, lg, rc>>

\* _clone: with RADOSClient(self) as dest_client, inside the first with; a
\* failure leaves the outer with-statement, whose __exit__ disconnects
SessConnectInner ==
    /\ rs.state = "on" /\ rs.pc = "connect2"
    /\ \E how \in ConnectOutcomes(FALSE) :
          LET c == connect_to_rados(how)
          IN rs' = IF c.raised = "none"
                   THEN [rs EXCEPT !.s[2] = c.session, !.pc = "body"]
                   ELSE [rs EXCEPT !.s[2] = c.session,
                                   !.s[1] = disconnect_from_rados(@),
                                   !.log = @ \o DisconnectLog,
                                   !.pc = "done", !.result = c.raised]
    /\ UNCHANGED <<cacheVars, vb, di, df, sn, lg, rc>>

\* RBDVolumeProxy.__init__: driver.rbd.Image(ioctx, str(name), snapshot=
\* ascii_str(snapshot), read_only=read_only) under `except driver.rbd.Error`:
\* it returns, raises rbd.Error, or raises another exception (str(name) and
\* ascii_str(snapshot) of a unicode name, a TypeError of rbd.Image)
SessOpen ==
    /\ rs.state = "on" /\ rs.pc = "open"
    /\ \/ rs' = [rs EXCEPT !.volume = "open", !.pc = "body"]
       \/ rs' = [rs EXCEPT !.s[1] = disconnect_from_rados(@),
                           !.log = @ \o DisconnectLog,
                           !.pc = "done", !.result = "rbd.Error"]
       \/ rs' = [rs EXCEPT !.pc = "done", !.result = "UnicodeEncodeError"]
    /\ UNCHANGED <<cacheVars, vb, di, df, sn, lg, rc>>

\* the body of the with-statement returns or raises; then __exit__:
\* RADOSClient.__exit__ disconnects (the inner one first);
\* RBDVolumeProxy.__exit__ is try: self.volume.close() finally: disconnect
SessBodyExit ==
    /\ rs.state = "on" /\ rs.pc = "body"
    /\ \E body \in {"none", "rbd.Error"}, close \in {"none", "rbd.Error"} :
          /\ close # "none" => rs.op = "volume"
          /\ rs' = [rs EXCEPT
                      !.volume = IF rs.op = "volume" /\ close = "none"
                                 THEN "closed" ELSE @,
                      !.s = [k \in {1, 2} |->
                               IF rs.s[k].client = "connected"
                               THEN disconnect_from_rados(rs.s[k]) ELSE rs.s[k]],
                      !.log = (IF rs.op = "volume" THEN <<"volume.close">> ELSE <<>>)
                              \o (IF rs.op = "clone" THEN DisconnectLog ELSE <<>>)
                              \o DisconnectLog,
                      !.pc = "done",
                      !.result = IF close # "none" THEN close
                                 ELSE IF body # "none" THEN body ELSE "returned"]
    /\ UNCHANGED <<cacheVars, vb, di, df, sn, lg, rc>>

SessNext ==
    SessStart \/ SessConnect \/ SessConnectInner \/ SessOpen \/ SessBodyExit

SpecSession == SessInit /\ [][SessNext]_vars

\* C14: when an operation has returned or raised, every connection it made
\* is shut down.
C14_NoSessionLeak ==
    rs.state = "on" /\ rs.pc \in {"idle", "done"} =>
       /\ \A k \in {1, 2} : rs.s[k].client \in {"none", "shutdown"}
       /\ rs.leaked = 0

\* C15: when the use of a volume handle is over, the volume that was opened
\* has been asked to close before the pool context and the connection were
\* closed, in that order, and the session is torn down also when closing the
\* volume raised and when the open failed.
C15_VolumeThenSession ==
    rs.state = "on" /\ rs.pc = "done" /\ rs.op = "volume"
       /\ rs.s[1].ioctx # "none" =>
       /\ rs.s[1] = [client |-> "shutdown", ioctx |-> "closed"]
       /\ rs.log = (IF rs.volume = "none" THEN <<>> ELSE <<"volume.close">>)
                      \o DisconnectLog

(***************************************************************************)
(* Rbd.create_image, Rbd._size, Rbd._resize                                *)
(***************************************************************************)
\* the sizes a volume can have, and those create_image is asked for
VolumeSizes == 1..MaxSize
RequestedSizes == {NoneV} \cup (0..MaxSize)

\* if size and self._size() < size  (variant: if size)
rbd_needs_resize_any(size, reported) == Truthy(size)
rbd_needs_resize(size, reported) == Truthy(size) /\ reported < size

\* the names of the volumes of the pool
RbdVolumes == {name \in PoolNames : rc.volumes[name] # NoneV}

\* volumes[name]: the size of the volume, NoneV when there is none;
\* base_volume: what a volume named by the base path reports to
\* get_disk_size(base) (RbdError: there is no such volume); size: the size
\* the current call asks for; resized: the call has resized the volume;
\* entry_exists: the volume rbd_name existed when the call was made;
\* prepared: the call has called prepare_template; cloned: direct_fetch has
\* cloned the volume in it; imported: the call has run the import command
RbdInit ==
    /\ \E own \in VolumeSizes \cup {NoneV}, others \in SUBSET (PoolNames \ {RbdName}),
          bv \in {RbdError, BaseVirtualSize} :
          rc = [state |-> "on", pc |-> "idle",
                volumes |-> [name \in PoolNames |->
                               IF name = RbdName THEN own
                               ELSE IF name \in others THEN 1 ELSE NoneV],
                base_volume |-> bv, size |-> NoneV, resized |-> FALSE,
                entry_exists |-> FALSE, prepared |-> FALSE, cloned |-> FALSE,
                imported |-> FALSE, err |-> "none", n |-> 0]
    /\ CacheIdle /\ VerifyIdle /\ InfoIdle /\ FetchIdle
    /\ SnapIdle /\ SessIdle /\ LegacyIdle

\* create_image(prepare_template, base, size) is called, after the previous
\* call has returned or raised
RbdCreateImage ==
    /\ rc.state = "on" /\ rc.pc \in {"idle", "returned", "raised"}
    /\ rc.n < MaxCalls
    /\ \E size \in RequestedSizes :
          rc' = [rc EXCEPT !.pc = "check_image_exists", !.size = size,
                           !.resized = FALSE, !.err = "none", !.n = @ + 1,
                           !.entry_exists = rc.volumes[RbdName] # NoneV,
                           !.prepared = FALSE, !.cloned = FALSE,
                           !.imported = FALSE]
    /\ UNCHANGED <<cacheVars, vb, di, df, sn, rs, lg>>

\* if not self.check_image_exists(): prepare_template(target=base, ...)
\* else: self.verify_base_size(base, size)
\* prepare_template leaves the pool as it is (it fetches the base file, or
\* finds it), or has the volume cloned by direct_fetch() from a parent of
\* some size, or raises
RbdPrepare ==
    /\ rc.state = "on" /\ rc.pc = "check_image_exists"
    /\ IF ~rbd_check_image_exists(RbdVolumes)
       THEN \/ rc' = [rc EXCEPT !.pc = "import", !.prepared = TRUE]
            \/ \E parent \in VolumeSizes :
                  rc' = [rc EXCEPT !.volumes[RbdName] = parent, !.pc = "import",
                                   !.prepared = TRUE, !.cloned = TRUE]
            \/ rc' = [rc EXCEPT !.pc = "raised", !.err = "FetchError",
                                !.prepared = TRUE]
       ELSE LET r == verify_base_size("rbd", rc.size, 0, rc.base_volume)
            IN rc' = IF r = "ok" THEN [rc EXCEPT !.pc = "import"]
                     ELSE [rc EXCEPT !.pc = "raised", !.err = r]
    /\ UNCHANGED <<cacheVars, vb, di, df, sn, rs, lg>>

\* if not self.check_image_exists(): libvirt_utils.import_rbd_image(...):
\* the volume gets the size of the base file, or the command raises
RbdImport ==
    /\ rc.state = "on" /\ rc.pc = "import"
    /\ IF ~rbd_check_image_exists(RbdVolumes)
       THEN \/ rc' = [rc EXCEPT !.volumes[RbdName] = BaseVirtualSize,
                                !.pc = "resize", !.imported = TRUE]
            \/ rc' = [rc EXCEPT !.pc = "raised", !.err = "ProcessExecutionError",
                                !.imported = TRUE]
       ELSE rc' = [rc EXCEPT !.pc = "resize"]
    /\ UNCHANGED <<cacheVars, vb, di, df, sn, rs, lg>>

\* if size and self._size() < size: self._resize(size)
\* _size() and _resize() open the volume rbd_name, which raises rbd.Error
\* when there is none; vol.resize(int(size)) can raise as well
RbdResize ==
    /\ rc.state = "on" /\ rc.pc = "resize"
    /\ IF ~Truthy(rc.size)
       THEN rc' = [rc EXCEPT !.pc = "returned"]
       ELSE IF rc.volumes[RbdName] = NoneV
       THEN rc' = [rc EXCEPT !.pc = "raised", !.err = "rbd.Error"]
       ELSE IF rbd_needs_resize(rc.size, rc.volumes[RbdName])
       THEN \/ rc' = [rc EXCEPT !.volumes[RbdName] = rc.size, !.resized = TRUE,
                                !.pc = "returned"]
            \/ rc' = [rc EXCEPT !.pc = "raised", !.err = "rbd.Error"]
       ELSE rc' = [rc EXCEPT !.pc = "returned"]
    /\ UNCHANGED <<cacheVars, vb, di, df, sn, rs, lg>>

RbdNext == RbdCreateImage \/ RbdPrepare \/ RbdImport \/ RbdResize

SpecRbd == RbdInit /\ [][RbdNext]_vars

\* C20: over the calls of create_image, one after the other, the volume
\* never gets smaller and never disappears; a call resizes it only from a
\* size below the requested one; when a call with a requested size s
\* returns, the volume has at least the size s.
C20_NeverShrinks ==
    [][/\ rc.volumes[RbdName] # NoneV =>
             /\ rc'.volumes[RbdName] # NoneV
             /\ rc'.volumes[RbdName] >= rc.volumes[RbdName]
       /\ rc'.resized /\ ~rc.resized =>
             /\ rc.volumes[RbdName] # NoneV
             /\ rc.volumes[RbdName] < rc.size
       /\ rc'.pc = "returned" /\ Truthy(rc'.size) =>
             /\ rc'.volumes[RbdName] # NoneV
             /\ rc'.volumes[RbdName] >= rc'.size]_vars

\* a second call has grown the volume the first call imported
C20_Witness ==
    /\ rc.state = "on" /\ rc.pc = "returned" /\ rc.n = 2
    /\ rc.resized /\ rc.size = MaxSize /\ rc.volumes[RbdName] = MaxSize

\* C22: the import command runs if and only if the volume does not exist
\* after the fetch step; no call both clones and imports; a call made when
\* the volume exists calls neither the fetch wrapper nor the import.
C22_ImportIffMissing ==
    [][/\ rc.pc = "import" /\ rc'.pc # "import" =>
             (rc'.imported <=> rc.volumes[RbdName] = NoneV)
       /\ ~(rc'.cloned /\ rc'.imported)
       /\ rc'.entry_exists => ~rc'.prepared /\ ~rc'.imported]_vars

\* C26: when create_image has returned, the pool holds a volume named
\* exactly rbd_name, whatever other volumes it held and whatever size was
\* asked for.
C26_VolumeExistsOnReturn ==
    rc.state = "on" /\ rc.pc = "returned" => rc.volumes[RbdName] # NoneV

Init == CacheInit /\ VerifyIdle /\ InfoIdle /\ FetchIdle /\ RbdVarsIdle

Next == \E p \in Procs : CacheStep(p)

Spec == Init /\ [][Next]_vars

(***************************************************************************)
(* Locks and termination of cache()                                        *)
(***************************************************************************)
\* a step of the call p is in
Progress(p) == InCall(p) /\ CacheStep(p)

\* The collaborators terminate and the locks are handed out: a call that
\* can take a step from some point on takes one.  (The calls of one
\* behaviour being finitely many, a lock that is free again and again is
\* free from some point on.)
SpecLive ==
    /\ Init /\ [][Next]_vars
    /\ \A p \in Procs : WF_vars(Progress(p))

Holds(p) == {n \in DOMAIN locks : locks[n] = p}

\* p is about to take the filename lock, the base-path lock, or (in
\* correct_format) the disk_info_path lock
AtLock(p) == pc[p] \in {"w_lock", "b_lock", "raw_correct_format"}

\* C28: a process that is about to take a lock holds none, a process that
\* is in no call holds none, and every cache() call returns or raises (no
\* process stays in a call for ever).
C28_NoDeadlock ==
    /\ [](\A p \in Procs : AtLock(p) \/ ~InCall(p) => Holds(p) = {})
    /\ \A p \in Procs : []<>(~InCall(p))

\* two calls were in progress at once, one waiting for the lock the other
\* holds
C28_Witness ==
    \E p, q \in Procs :
        /\ p # q /\ pc[p] = "w_lock" /\ InFetch(q)
        /\ locks["filename"] = q

====
